---- MODULE Spec2Model ----
(***************************************************************************)
(* actions-version-check.py: the pipeline of main() as a state machine.    *)
(*                                                                         *)
(* Strings are sequences of one-character strings, so that split('@'),     *)
(* ';'.join, the regular expression of get_allowed_actions and fnmatch are *)
(* computed on characters.  A Python dict is a sequence of [k, v] pairs in *)
(* insertion order (dicts iterate in insertion order).  The empty sequence *)
(* stands for None/'' where the code only tests truthiness (args.org,      *)
(* args.enterprise).                                                       *)
(***************************************************************************)
EXTENDS Naturals, Sequences, FiniteSets, TLC

VARIABLES
    args,               \* argparse namespace: include_up_to_date, org, enterprise
    api,                \* the REST API's data: releases per action, patterns_allowed
    report_file,        \* args.report        : [ok, data]
    report_unique_file, \* args.report_unique : [ok, data]
    repos_report,       \* main: repos_report
    unique_actions,     \* main: unique_actions
    idx,                \* get_actions_versions: position of the for loop (1-based)
    actions_versions,   \* the action-versions table (ordered dict)
    requests,           \* every GET issued, in order (endpoint strings)
    outcome,            \* how the last make_request call ended
    response,           \* the last parsed JSON body returned by make_request
    allowed_actions,    \* main: allowed_actions
    matching_patterns,  \* compare_allowed_actions: matching_patterns
    csv_file,           \* the CSV output file: [written, lines]
    json_file,          \* the JSON output file: [written, data]
    txt_file,           \* the unmatched-patterns report: [written, lines]
    pc,                 \* position in main()
    exit_status         \* the process's exit status once it has ended

vars == <<args, api, report_file, report_unique_file, repos_report, unique_actions,
          idx, actions_versions, requests, outcome, response, allowed_actions,
          matching_patterns, csv_file, json_file, txt_file, pc, exit_status>>

----------------------------------------------------------------------------
(* Bounds of the model *)

MaxUnique == 2
MaxRepos == 2
MaxUniqueWide == 3
MaxPatterns == 3

----------------------------------------------------------------------------
(* Generic helpers *)

SeqsUpTo(S, n) == UNION {[1..k -> S] : k \in 0..n}

Range(s) == {s[k] : k \in DOMAIN s}

RECURSIVE Join(_, _)
\* sep.join(parts)
Join(sep, parts) ==
    IF parts = <<>> THEN <<>>
    ELSE IF Len(parts) = 1 THEN parts[1]
    ELSE parts[1] \o sep \o Join(sep, Tail(parts))

\* Python dict, insertion ordered: a sequence of [k |-> key, v |-> value]
DictKeys(d) == [n \in DOMAIN d |-> d[n].k]

DictHas(d, key) == \E n \in DOMAIN d : d[n].k = key

DictGet(d, key) == d[CHOOSE n \in DOMAIN d : d[n].k = key].v

\* d[key] = value: replaces in place, or appends a new key at the end
DictSet(d, key, value) ==
    IF DictHas(d, key)
    THEN [n \in DOMAIN d |-> IF d[n].k = key THEN [k |-> key, v |-> value] ELSE d[n]]
    ELSE Append(d, [k |-> key, v |-> value])

\* d.pop(key) for a key that is present
DictPop(d, key) == SelectSeq(d, LAMBDA e : e.k # key)

----------------------------------------------------------------------------
(* The strings of the model *)

At == <<"@">>
Slash == <<"/">>

act_ab == <<"a", "/", "b">>
act_ze == <<"z", "/", "e">>
ver_v1 == <<"v", "1">>
ver_v2 == <<"v", "2">>
own_a == <<"a">>
own_z == <<"z">>
repo_c == <<"c">>
repo_f == <<"f">>
ent_x == <<"x">>

ActionNames == {act_ab, act_ze}
Versions == {ver_v1, ver_v2}

ref_ab1 == act_ab \o At \o ver_v1
ref_ab2 == act_ab \o At \o ver_v2
ref_ze1 == act_ze \o At \o ver_v1

\* the action references of the reports: each holds exactly one '@'
Refs == {ref_ab1, ref_ab2, ref_ze1}

\* allow-list patterns
pat_a_star == <<"a", "/", "*">>
pat_z_star == <<"z", "/", "*">>
pat_ab == <<"a", "/", "b">>
pat_wf_a == <<"a", "/", "w", ".", "y", "m", "l", "@", "m">>
pat_wf_z == <<"z", "/", "w", ".", "y", "m", "l", "@", "m">>
pat_q == <<"?", "/", "e">>

Patterns == {pat_a_star, pat_z_star, pat_ab, pat_wf_a, pat_wf_z, pat_q}

----------------------------------------------------------------------------
(* split_action *)

\* action.split('@') unpacked into two names: the reference holds one '@'
split_action(action) ==
    LET at == CHOOSE n \in DOMAIN action : action[n] = "@"
    IN  <<SubSeq(action, 1, at - 1), SubSeq(action, at + 1, Len(action))>>

----------------------------------------------------------------------------
(* make_request *)

Outcomes == {"ok", "forbidden", "http_error", "network_error", "interrupt"}

\* an endpoint is its path template and the name formatted into it
release_endpoint(action_name) == [path |-> "/repos/{}/releases/latest", name |-> action_name]

org_endpoint(org_name) ==
    [path |-> "/orgs/{}/actions/permissions/selected-actions", name |-> org_name]

enterprise_endpoint(slug) ==
    [path |-> "/enterprises/{}/actions/permissions/selected-actions", name |-> slug]

\* the body the API serves at an endpoint
served(endpoint) ==
    IF endpoint.path = "/repos/{}/releases/latest"
    THEN api.releases[endpoint.name]
    ELSE [patterns_allowed |-> api.patterns_allowed]

\* the commented-out retry: on 403 wait and issue the request again
make_request_retry(endpoint, result) ==
    IF result = "forbidden"
    THEN [gets |-> <<endpoint, endpoint>>, exits |-> FALSE, body |-> served(endpoint)]
    ELSE IF result = "ok"
    THEN [gets |-> <<endpoint>>, exits |-> FALSE, body |-> served(endpoint)]
    ELSE [gets |-> <<endpoint>>, exits |-> TRUE, body |-> <<>>]

\* one requests.get; 403, raise_for_status, RequestException and
\* KeyboardInterrupt all end in sys.exit(1); otherwise response.json()
make_request(endpoint, result) ==
    IF result = "ok"
    THEN [gets |-> <<endpoint>>, exits |-> FALSE, body |-> served(endpoint)]
    ELSE [gets |-> <<endpoint>>, exits |-> TRUE, body |-> <<>>]

----------------------------------------------------------------------------
(* get_actions_versions *)

\* a release body with a tag, and one without the tag_name field
Release(tag) == [tag_name |-> tag]
NoRelease == [message |-> "no releases"]

\* line 107 with the flag ignored
is_up_to_date_skip_flagless(include_up_to_date, version, latest_release) ==
    version = latest_release

\* line 107: the version is left out of the table
is_up_to_date_skip(include_up_to_date, version, latest_release) ==
    ~include_up_to_date /\ version = latest_release

\* lines 106-109: record the version under an action that has its latest release
record_version(table, action_name, version, include_up_to_date) ==
    LET entry == DictGet(table, action_name)
    IN  IF ~DictHas(entry.versions_used_in_repos, version)
        THEN IF is_up_to_date_skip(include_up_to_date, version, entry.latest_release)
             THEN table
             ELSE DictSet(table, action_name,
                          [entry EXCEPT !.versions_used_in_repos = DictSet(@, version, <<>>)])
        ELSE table

\* lines 102-105 without the pop: the action stays, with an empty latest release
no_release_kept(table, action_name) ==
    DictSet(table, action_name, [versions_used_in_repos |-> <<>>, latest_release |-> <<>>])

\* lines 102-105: KeyError, the action is popped from the table
no_release(table, action_name) == DictPop(table, action_name)

\* lines 94-109: one iteration of the loop; result is how the request ends
\* if one is made.  Returns the table, the GETs issued, whether the
\* process exits and the response read.
resolve_action(table, action, include_up_to_date, result) ==
    LET action_name == split_action(action)[1]
        version == split_action(action)[2]
        fresh == DictSet(table, action_name, [versions_used_in_repos |-> <<>>])
        req == make_request(release_endpoint(action_name), result)
    IN  IF ~DictHas(table, action_name)
        THEN IF req.exits
             THEN [table |-> fresh, gets |-> req.gets, exits |-> TRUE, fetched |-> TRUE,
                   body |-> req.body]
             ELSE IF "tag_name" \in DOMAIN req.body
             THEN [table |-> record_version(
                                 DictSet(table, action_name,
                                         [versions_used_in_repos |-> <<>>,
                                          latest_release |-> req.body.tag_name]),
                                 action_name, version, include_up_to_date),
                   gets |-> req.gets, exits |-> FALSE, fetched |-> TRUE, body |-> req.body]
             ELSE [table |-> no_release(fresh, action_name),
                   gets |-> req.gets, exits |-> FALSE, fetched |-> TRUE, body |-> req.body]
        ELSE [table |-> record_version(table, action_name, version, include_up_to_date),
              gets |-> <<>>, exits |-> FALSE, fetched |-> FALSE, body |-> <<>>]

RECURSIVE get_actions_versions_from(_, _, _)
\* the whole loop from a table on, every request succeeding
get_actions_versions_from(table, actions, include_up_to_date) ==
    IF actions = <<>> THEN table
    ELSE get_actions_versions_from(
             resolve_action(table, Head(actions), include_up_to_date, "ok").table,
             Tail(actions), include_up_to_date)

\* get_actions_versions(unique_actions, include_up_to_date), every request succeeding
get_actions_versions(actions, include_up_to_date) ==
    get_actions_versions_from(<<>>, actions, include_up_to_date)

----------------------------------------------------------------------------
(* get_repo_usage *)

\* f'{repo["owner"]}/{repo["repo"]}'
repo_id(repo) == repo.owner \o Slash \o repo.repo

\* lines 118-120 with the filter left out
org_excludes_never(repo, org) == FALSE

\* lines 118-120: an org filter is set and the repository is not the org's
org_excludes(repo, org) == org # <<>> /\ repo.owner # org

\* lines 116-123: one reference of one repository record
add_usage(table, repo, action, org) ==
    LET action_name == split_action(action)[1]
        version == split_action(action)[2]
    IN  IF org_excludes(repo, org) THEN table
        ELSE IF ~DictHas(table, action_name) THEN table
        ELSE LET entry == DictGet(table, action_name)
             IN  IF ~DictHas(entry.versions_used_in_repos, version) THEN table
                 ELSE DictSet(table, action_name,
                          [entry EXCEPT !.versions_used_in_repos =
                              DictSet(@, version, Append(DictGet(@, version), repo_id(repo)))])

RECURSIVE add_usages(_, _, _, _)
\* line 115: the references of one record, in order
add_usages(table, repo, uses, org) ==
    IF uses = <<>> THEN table
    ELSE add_usages(add_usage(table, repo, Head(uses), org), repo, Tail(uses), org)

RECURSIVE get_repo_usage(_, _, _)
\* line 114: the records of the report, in order
get_repo_usage(report, table, org) ==
    IF report = <<>> THEN table
    ELSE get_repo_usage(Tail(report), add_usages(table, Head(report), Head(report).uses, org), org)

----------------------------------------------------------------------------
(* clean_output *)

\* lines 169-172 left out: versions with no usage stay
clean_versions_kept(versions) == versions

\* lines 169-172: pop every version whose list is empty
clean_versions(versions) == SelectSeq(versions, LAMBDA e : e.v # <<>>)

RECURSIVE clean_actions(_, _)
\* lines 168-175: over a copy of the keys
clean_actions(table, keys) ==
    IF keys = <<>> THEN table
    ELSE LET action == Head(keys)
             entry == DictGet(table, action)
             cleaned == [entry EXCEPT !.versions_used_in_repos = clean_versions(@)]
         IN  IF cleaned.versions_used_in_repos = <<>>
             THEN clean_actions(DictPop(table, action), Tail(keys))
             ELSE clean_actions(DictSet(table, action, cleaned), Tail(keys))

clean_output(table) == clean_actions(table, DictKeys(table))

----------------------------------------------------------------------------
(* write_outdated_actions_csv, write_outdated_actions_json *)

Comma == <<",">>
Semicolon == <<";">>

csv_header == "action_name,latest_release,used_version,used_in_repos"

\* line 184 with the latest release and the used version in each other's column
csv_row_version_first(action_name, latest_release, version, repos) ==
    action_name \o Comma \o version \o Comma \o latest_release \o Comma
        \o Join(Semicolon, repos)

\* line 184: one row, without its line break
csv_row(action_name, latest_release, version, repos) ==
    action_name \o Comma \o latest_release \o Comma \o version \o Comma
        \o Join(Semicolon, repos)

\* lines 183-184: the rows of one action
csv_rows_of(action_name, entry) ==
    [n \in DOMAIN entry.versions_used_in_repos |->
        csv_row(action_name, entry.latest_release,
                entry.versions_used_in_repos[n].k, entry.versions_used_in_repos[n].v)]

RECURSIVE csv_rows(_)
\* lines 182-184: the rows of the table, in its order
csv_rows(table) ==
    IF table = <<>> THEN <<>>
    ELSE csv_rows_of(Head(table).k, Head(table).v) \o csv_rows(Tail(table))

----------------------------------------------------------------------------
(* get_allowed_actions *)

\* re.match(r'.*\.yml(@.*)$', pattern): '.yml@' then anything up to the end
is_reusable_workflow(pattern) ==
    \E n \in 1..Len(pattern) :
        n + 4 <= Len(pattern) /\ SubSeq(pattern, n, n + 4) = <<".", "y", "m", "l", "@">>

\* list.remove(x): removes the first item equal to x
ListRemove(list, x) ==
    LET first == CHOOSE n \in DOMAIN list : list[n] = x /\ \A m \in 1..(n - 1) : list[m] # x
    IN  SubSeq(list, 1, first - 1) \o SubSeq(list, first + 1, Len(list))

RECURSIVE remove_reusable_workflows(_, _)
\* lines 134-137: the for loop reads position n of the list it is removing
\* from, then moves to position n + 1
remove_reusable_workflows(list, n) ==
    IF n > Len(list) THEN list
    ELSE IF is_reusable_workflow(list[n])
    THEN remove_reusable_workflows(ListRemove(list, list[n]), n + 1)
    ELSE remove_reusable_workflows(list, n + 1)

\* lines 133-142, on the body of the permissions response
get_allowed_actions(body) == remove_reusable_workflows(body.patterns_allowed, 1)

----------------------------------------------------------------------------
(* compare_allowed_actions *)

RECURSIVE fnmatch(_, _)
\* fnmatch(name, pat) for patterns of literals, '*' and '?'; the whole name
\* has to match
fnmatch(name, pat) ==
    IF pat = <<>> THEN name = <<>>
    ELSE IF Head(pat) = "*"
    THEN fnmatch(name, Tail(pat)) \/ (name # <<>> /\ fnmatch(Tail(name), pat))
    ELSE name # <<>> /\ (Head(pat) = "?" \/ Head(pat) = Head(name))
                    /\ fnmatch(Tail(name), Tail(pat))

\* lines 152-156 with the break taken on the first key, matching or not
any_match_first_key(pattern, keys) ==
    keys # <<>> /\ fnmatch(Head(keys), pattern)

RECURSIVE any_match(_, _)
\* lines 152-156: the inner loop over the keys of the table
any_match(pattern, keys) ==
    IF keys = <<>> THEN FALSE
    ELSE IF fnmatch(Head(keys), pattern) THEN TRUE
    ELSE any_match(pattern, Tail(keys))

report_header == "Allowed actions patterns that do not *seem* to match any used actions:"

RECURSIVE compare_allowed_actions(_, _, _, _)
\* lines 148-160: returns matching_patterns and the lines written
compare_allowed_actions(allowed_actions_patterns, table, matching, lines) ==
    IF allowed_actions_patterns = <<>> THEN [matching_patterns |-> matching, lines |-> lines]
    ELSE IF any_match(Head(allowed_actions_patterns), DictKeys(table))
    THEN compare_allowed_actions(Tail(allowed_actions_patterns), table, matching + 1, lines)
    ELSE compare_allowed_actions(Tail(allowed_actions_patterns), table, matching,
                                 Append(lines, Head(allowed_actions_patterns)))

----------------------------------------------------------------------------
(* main *)

scoped(a) == a.org # <<>> \/ a.enterprise # <<>>

\* main with the allow-list comparison moved before the report writers
main_next_compare_first(step, a) ==
    CASE step = "load" -> "resolve"
      [] step = "resolve" -> "aggregate"
      [] step = "aggregate" -> "clean"
      [] step = "clean" -> IF scoped(a) THEN "allowed" ELSE "csv"
      [] step = "allowed" -> "compare"
      [] step = "compare" -> "csv"
      [] step = "csv" -> "json"
      [] step = "json" -> "done"

\* lines 192-212: the step that follows a step of main
main_next(step, a) ==
    CASE step = "load" -> "resolve"
      [] step = "resolve" -> "aggregate"
      [] step = "aggregate" -> "clean"
      [] step = "clean" -> "csv"
      [] step = "csv" -> "json"
      [] step = "json" -> IF scoped(a) THEN "allowed" ELSE "done"
      [] step = "allowed" -> "compare"
      [] step = "compare" -> "done"

\* falling off the end of main ends the process with status 0
Goto(step) ==
    /\ pc' = main_next(step, args)
    /\ exit_status' = IF main_next(step, args) = "done" THEN <<0>> ELSE exit_status

\* sys.exit(1)
Exit1 ==
    /\ pc' = "exit"
    /\ exit_status' = <<1>>

\* line 194, load_reports (lines 49-59)
LoadReports ==
    /\ pc = "load"
    /\ IF report_file.ok /\ report_unique_file.ok
       THEN /\ repos_report' = report_file.data
            /\ unique_actions' = report_unique_file.data
            /\ Goto("load")
       ELSE /\ Exit1
            /\ UNCHANGED <<repos_report, unique_actions>>
    /\ UNCHANGED <<args, api, report_file, report_unique_file, idx, actions_versions,
                   requests, outcome, response, allowed_actions, matching_patterns,
                   csv_file, json_file, txt_file>>

\* line 195, get_actions_versions: one iteration of the loop of lines 93-109
ResolveAction ==
    /\ pc = "resolve"
    /\ idx <= Len(unique_actions)
    /\ \E result \in Outcomes :
          LET r == resolve_action(actions_versions, unique_actions[idx],
                                  args.include_up_to_date, result)
          IN  /\ r.fetched \/ result = "ok"
              /\ actions_versions' = r.table
              /\ requests' = requests \o r.gets
              /\ outcome' = IF r.fetched THEN result ELSE outcome
              /\ response' = IF r.fetched /\ ~r.exits THEN r.body ELSE response
              /\ IF r.exits
                 THEN Exit1 /\ UNCHANGED idx
                 ELSE idx' = idx + 1 /\ UNCHANGED <<pc, exit_status>>
    /\ UNCHANGED <<args, api, report_file, report_unique_file, repos_report,
                   unique_actions, allowed_actions, matching_patterns,
                   csv_file, json_file, txt_file>>

\* line 111: the loop is over, the table is returned
ResolveReturn ==
    /\ pc = "resolve"
    /\ idx > Len(unique_actions)
    /\ Goto("resolve")
    /\ UNCHANGED <<args, api, report_file, report_unique_file, repos_report,
                   unique_actions, idx, actions_versions, requests, outcome, response,
                   allowed_actions, matching_patterns, csv_file, json_file, txt_file>>

\* line 197, get_repo_usage
GetRepoUsage ==
    /\ pc = "aggregate"
    /\ actions_versions' = get_repo_usage(repos_report, actions_versions, args.org)
    /\ Goto("aggregate")
    /\ UNCHANGED <<args, api, report_file, report_unique_file, repos_report,
                   unique_actions, idx, requests, outcome, response,
                   allowed_actions, matching_patterns, csv_file, json_file, txt_file>>

\* line 198, clean_output
CleanOutput ==
    /\ pc = "clean"
    /\ actions_versions' = clean_output(actions_versions)
    /\ Goto("clean")
    /\ UNCHANGED <<args, api, report_file, report_unique_file, repos_report,
                   unique_actions, idx, requests, outcome, response,
                   allowed_actions, matching_patterns, csv_file, json_file, txt_file>>

\* lines 200-201, write_outdated_actions_csv
WriteCsv ==
    /\ pc = "csv"
    /\ csv_file' = [written |-> TRUE, header |-> csv_header,
                    rows |-> csv_rows(actions_versions)]
    /\ Goto("csv")
    /\ UNCHANGED <<args, api, report_file, report_unique_file, repos_report,
                   unique_actions, idx, actions_versions, requests, outcome, response,
                   allowed_actions, matching_patterns, json_file, txt_file>>

\* lines 202-203, write_outdated_actions_json
WriteJson ==
    /\ pc = "json"
    /\ json_file' = [written |-> TRUE, data |-> actions_versions]
    /\ Goto("json")
    /\ UNCHANGED <<args, api, report_file, report_unique_file, repos_report,
                   unique_actions, idx, actions_versions, requests, outcome, response,
                   allowed_actions, matching_patterns, csv_file, txt_file>>

\* lines 205-206 and 208-209, get_allowed_actions
GetAllowedActions ==
    /\ pc = "allowed"
    /\ \E result \in Outcomes :
          LET endpoint == IF args.org # <<>> THEN org_endpoint(args.org)
                          ELSE enterprise_endpoint(args.enterprise)
              r == make_request(endpoint, result)
          IN  /\ requests' = requests \o r.gets
              /\ outcome' = result
              /\ IF r.exits
                 THEN Exit1 /\ UNCHANGED <<response, allowed_actions>>
                 ELSE /\ response' = r.body
                      /\ allowed_actions' = get_allowed_actions(r.body)
                      /\ Goto("allowed")
    /\ UNCHANGED <<args, api, report_file, report_unique_file, repos_report,
                   unique_actions, idx, actions_versions, matching_patterns,
                   csv_file, json_file, txt_file>>

\* lines 207 and 210, compare_allowed_actions
CompareAllowedActions ==
    /\ pc = "compare"
    /\ LET r == compare_allowed_actions(allowed_actions, actions_versions, 0, <<>>)
       IN  /\ matching_patterns' = r.matching_patterns
           /\ txt_file' = [written |-> TRUE, header |-> report_header, lines |-> r.lines]
    /\ Goto("compare")
    /\ UNCHANGED <<args, api, report_file, report_unique_file, repos_report,
                   unique_actions, idx, actions_versions, requests, outcome, response,
                   allowed_actions, csv_file, json_file>>

Next ==
    \/ LoadReports
    \/ ResolveAction
    \/ ResolveReturn
    \/ GetRepoUsage
    \/ CleanOutput
    \/ WriteCsv
    \/ WriteJson
    \/ GetAllowedActions
    \/ CompareAllowedActions

----------------------------------------------------------------------------
(* The inputs of a run *)

Record(owner, repo, uses) == [owner |-> owner, repo |-> repo, uses |-> uses]

rec_ac_1 == Record(own_a, repo_c, <<ref_ab1>>)
rec_zf == Record(own_z, repo_f, <<ref_ab1, ref_ze1>>)
rec_ac_2 == Record(own_a, repo_c, <<ref_ab2, ref_ze1>>)

\* repository records of report.json; a record lists a reference once
Records == {rec_ac_1, rec_zf, rec_ac_2}

Malformed == [ok |-> FALSE, data |-> <<>>]

Loaded(contents) == {[ok |-> TRUE, data |-> d] : d \in contents}

\* what the releases endpoint serves for each action
ReleaseMaps ==
    {[a \in ActionNames |-> IF a = act_ab THEN Release(ver_v2) ELSE Release(ver_v1)],
     [a \in ActionNames |-> IF a = act_ab THEN Release(ver_v2) ELSE NoRelease],
     [a \in ActionNames |-> IF a = act_ab THEN NoRelease ELSE Release(ver_v1)]}

Scopes ==
    {[org |-> <<>>, enterprise |-> <<>>],
     [org |-> own_a, enterprise |-> <<>>],
     [org |-> <<>>, enterprise |-> ent_x]}

Args(scopes) ==
    {[include_up_to_date |-> u, org |-> s.org, enterprise |-> s.enterprise] :
        u \in BOOLEAN, s \in scopes}

\* the state when main starts, after parse_args
InitWith(uniques, reports, arguments, releases, patterns) ==
    /\ report_unique_file \in uniques
    /\ report_file \in reports
    /\ args \in arguments
    /\ api \in [releases : releases, patterns_allowed : patterns]
    /\ repos_report = <<>>
    /\ unique_actions = <<>>
    /\ idx = 1
    /\ actions_versions = <<>>
    /\ requests = <<>>
    /\ outcome = "none"
    /\ response = <<>>
    /\ allowed_actions = <<>>
    /\ matching_patterns = 0
    /\ csv_file = [written |-> FALSE, header |-> "", rows |-> <<>>]
    /\ json_file = [written |-> FALSE, data |-> <<>>]
    /\ txt_file = [written |-> FALSE, header |-> "", lines |-> <<>>]
    /\ pc = "load"
    /\ exit_status = <<>>

Init ==
    InitWith(Loaded(SeqsUpTo(Refs, MaxUnique)) \cup {Malformed},
             Loaded(SeqsUpTo(Records, MaxRepos)) \cup {Malformed},
             Args(Scopes), ReleaseMaps,
             {<<pat_wf_a, pat_a_star, pat_z_star>>})

Spec == Init /\ [][Next]_vars

\* long unique-actions lists, one report
InitResolver ==
    InitWith(Loaded(SeqsUpTo(Refs, MaxUniqueWide)),
             Loaded({<<rec_ac_1, rec_zf>>}),
             Args(Scopes), ReleaseMaps \cup {[a \in ActionNames |-> NoRelease]},
             {<<pat_a_star>>})

SpecResolver == InitResolver /\ [][Next]_vars

\* every allow-list of up to MaxPatterns patterns, a few tables
InitAllowed ==
    InitWith(Loaded({<<>>, <<ref_ab1>>, <<ref_ze1, ref_ab1>>}),
             Loaded({<<rec_zf, rec_ac_1>>}),
             Args(Scopes \ {[org |-> <<>>, enterprise |-> <<>>]}),
             {[a \in ActionNames |-> Release(ver_v2)]},
             SeqsUpTo(Patterns, MaxPatterns))

SpecAllowed == InitAllowed /\ [][Next]_vars

----------------------------------------------------------------------------
(* Vocabulary of the properties *)

HasRelease(a) == "tag_name" \in DOMAIN api.releases[a]

InTable(table, a, v) ==
    DictHas(table, a) /\ DictHas(DictGet(table, a).versions_used_in_repos, v)

UsageOf(table, a, v) == DictGet(DictGet(table, a).versions_used_in_repos, v)

RefOf(a, v) == a \o <<"@">> \o v

\* the records of the report that list a@v, optionally only those of an owner
UsersOf(a, v, owner) ==
    LET users == SelectSeq(repos_report,
                     LAMBDA r : /\ RefOf(a, v) \in Range(r.uses)
                                /\ (owner = <<>> \/ r.owner = owner))
    IN  [n \in DOMAIN users |-> users[n].owner \o <<"/">> \o users[n].repo]

CountOf(seq, x) == Cardinality({n \in DOMAIN seq : seq[n] = x})

----------------------------------------------------------------------------
\* C1: with default flags (include_up_to_date false, no org filter) the CSV
\* holds exactly one data row per (action, version) such that action@version
\* is in the unique-actions list, the action has a latest release, the
\* version differs from it and at least one repository record uses
\* action@version; the row is action,latest,version and the 'owner/repo' of
\* those records in report order joined by ';'.  For unique [a/b@v1, a/b@v2],
\* latest v2 and one record a/c using a/b@v1 the only row is a/b,v2,v1,a/c.
C1_OutdatedPairs ==
    {p \in ActionNames \X Versions :
        /\ RefOf(p[1], p[2]) \in Range(unique_actions)
        /\ HasRelease(p[1])
        /\ p[2] # api.releases[p[1]].tag_name
        /\ UsersOf(p[1], p[2], <<>>) # <<>>}

C1_Row(a, v) ==
    a \o <<",">> \o api.releases[a].tag_name \o <<",">> \o v \o <<",">>
        \o Join(<<";">>, UsersOf(a, v, <<>>))

C1_Example ==
    /\ unique_actions = <<ref_ab1, ref_ab2>>
    /\ api.releases[act_ab] = [tag_name |-> ver_v2]
    /\ repos_report = <<[owner |-> <<"a">>, repo |-> <<"c">>, uses |-> <<ref_ab1>>]>>

C1_ExampleRow == <<"a", "/", "b", ",", "v", "2", ",", "v", "1", ",", "a", "/", "c">>

C1_CsvRows ==
    (csv_file.written /\ ~args.include_up_to_date /\ args.org = <<>>) =>
        /\ csv_file.header = "action_name,latest_release,used_version,used_in_repos"
        /\ Range(csv_file.rows) = {C1_Row(p[1], p[2]) : p \in C1_OutdatedPairs}
        /\ Len(csv_file.rows) = Cardinality(C1_OutdatedPairs)
        /\ C1_Example => csv_file.rows = <<C1_ExampleRow>>

C1_Witness ==
    /\ csv_file.written /\ ~args.include_up_to_date /\ args.org = <<>>
    /\ C1_Example
    /\ csv_file.rows = <<C1_ExampleRow>>

\* two records using the same outdated reference: both are in the row, in
\* report order
C1_WitnessOrder ==
    /\ csv_file.written /\ ~args.include_up_to_date /\ args.org = <<>>
    /\ repos_report = <<rec_zf, rec_ac_1>>
    /\ csv_file.rows = <<<<"a", "/", "b", ",", "v", "2", ",", "v", "1", ",",
                           "z", "/", "f", ";", "a", "/", "c">> >>

----------------------------------------------------------------------------
\* C2: with include_up_to_date unset a version equal to the latest release
\* fetched for its action is not in the table (nor in what is written from
\* it); with include_up_to_date set it is in the table get_actions_versions
\* returns.
C2_UpToDate ==
    {p \in ActionNames \X Versions :
        /\ RefOf(p[1], p[2]) \in Range(unique_actions)
        /\ HasRelease(p[1])
        /\ p[2] = api.releases[p[1]].tag_name}

----------------------------------------------------------------------------
\* C3: no pattern ending in a workflow-file-and-ref suffix ('.yml@<ref>') is
\* in the list get_allowed_actions returns, so none is counted or written to
\* the unmatched-patterns report, wherever such patterns stand in the
\* fetched list.
C3_WorkflowRef(pattern) ==
    \E n \in DOMAIN pattern, m \in DOMAIN pattern :
        /\ m = n + 4
        /\ <<pattern[n], pattern[n + 1], pattern[n + 2], pattern[n + 3], pattern[m]>>
              = <<".", "y", "m", "l", "@">>

C3_NoWorkflowPatterns ==
    /\ \A n \in DOMAIN allowed_actions : ~C3_WorkflowRef(allowed_actions[n])
    /\ \A n \in DOMAIN txt_file.lines : ~C3_WorkflowRef(txt_file.lines[n])

----------------------------------------------------------------------------
\* C4: the latest release of each distinct action name is fetched once: the
\* number of GETs to its latest-release endpoint is never more than 1, and is
\* exactly 1 when get_actions_versions returns, whatever the response holds.
C4_FetchedOnce ==
    \A a \in ActionNames :
        LET gets == CountOf(requests, [path |-> "/repos/{}/releases/latest", name |-> a])
        IN  /\ gets <= 1
            /\ (pc = "aggregate" /\ \E v \in Versions : RefOf(a, v) \in Range(unique_actions))
                  => gets = 1

----------------------------------------------------------------------------
\* C5: an action whose latest-release response has no tag_name is not a key
\* of the table get_actions_versions returns, however many references it has
\* and wherever they stand; the loop goes on, and the table is the one the
\* list without that action's references gives.
C5_Without(a) ==
    SelectSeq(unique_actions, LAMBDA ref : \A v \in Versions : ref # RefOf(a, v))

C5_NoReleaseExcluded ==
    pc = "aggregate" =>
        \A a \in ActionNames :
            ~HasRelease(a) =>
                /\ ~DictHas(actions_versions, a)
                /\ actions_versions = get_actions_versions(C5_Without(a), args.include_up_to_date)

C5_Witness ==
    /\ pc = "aggregate"
    /\ ~HasRelease(act_ab) /\ HasRelease(act_ze)
    /\ unique_actions = <<ref_ab1, ref_ze1, ref_ab2>>
    /\ args.include_up_to_date
    /\ InTable(actions_versions, act_ze, ver_v1)
    /\ ~DictHas(actions_versions, act_ab)

----------------------------------------------------------------------------
\* C6: get_repo_usage with an org filter: a record whose owner differs from
\* the filter adds nothing; for a record whose owner matches, each of its
\* references that has an entry in the table gets the record's 'owner/repo'
\* appended to exactly that version's list; a reference whose action or
\* version is not in the table is skipped and adds no key.
C6_OrgFilter ==
    [][(pc = "aggregate" /\ args.org # <<>>) =>
          LET before == actions_versions
              after == actions_versions'
          IN  /\ DictKeys(after) = DictKeys(before)
              /\ \A a \in ActionNames :
                    DictHas(before, a) =>
                      /\ DictKeys(DictGet(after, a).versions_used_in_repos)
                            = DictKeys(DictGet(before, a).versions_used_in_repos)
                      /\ DictGet(after, a).latest_release = DictGet(before, a).latest_release
                      /\ \A v \in Versions :
                            InTable(before, a, v) =>
                              UsageOf(after, a, v)
                                = UsageOf(before, a, v) \o UsersOf(a, v, args.org)
      ]_vars

\* the record of owner z is left out, the one of owner a is counted, and
\* z/e@v1 has no entry
C6_Witness ==
    /\ pc = "clean"
    /\ args.org = <<"a">>
    /\ repos_report = <<rec_zf, rec_ac_1>>
    /\ InTable(actions_versions, act_ab, ver_v1)
    /\ UsageOf(actions_versions, act_ab, ver_v1) = << <<"a", "/", "c">> >>
    /\ ~DictHas(actions_versions, act_ze)

----------------------------------------------------------------------------
\* C7: clean_output removes every version whose repository list is empty and
\* every action left without a version, and nothing else: a version with a
\* non-empty list stays under its action with its list and the action's latest
\* release unchanged, so afterwards no version list and no version mapping is
\* empty.
C7_CleanOutput ==
    [][pc = "clean" =>
          LET before == actions_versions
              after == actions_versions'
              Used(a, v) == InTable(before, a, v) /\ UsageOf(before, a, v) # <<>>
          IN  /\ \A a \in ActionNames :
                    /\ DictHas(after, a) <=> \E v \in Versions : Used(a, v)
                    /\ DictHas(after, a) =>
                          DictGet(after, a).latest_release = DictGet(before, a).latest_release
                    /\ \A v \in Versions :
                          /\ InTable(after, a, v) <=> Used(a, v)
                          /\ InTable(after, a, v) =>
                                UsageOf(after, a, v) = UsageOf(before, a, v)
              /\ DictKeys(after)
                    = SelectSeq(DictKeys(before), LAMBDA a : \E v \in Versions : Used(a, v))
              /\ \A n \in DOMAIN after :
                    /\ after[n].v.versions_used_in_repos # <<>>
                    /\ \A m \in DOMAIN after[n].v.versions_used_in_repos :
                          after[n].v.versions_used_in_repos[m].v # <<>>
      ]_vars

\* z/e was recorded with z/e@v1 and used only outside the org: it is gone,
\* while a/b with its used version stays
C7_Witness ==
    /\ pc = "csv"
    /\ args.include_up_to_date
    /\ args.org = <<"a">>
    /\ HasRelease(act_ze)
    /\ ref_ze1 \in Range(unique_actions)
    /\ ~DictHas(actions_versions, act_ze)
    /\ InTable(actions_versions, act_ab, ver_v1)
    /\ UsageOf(actions_versions, act_ab, ver_v1) # <<>>

----------------------------------------------------------------------------
\* C8: compare_allowed_actions counts a pattern as matching exactly when it
\* glob-matches a key of the cleaned table and writes it as one line of the
\* report exactly when it matches none ('owner/*' matches when a key
\* 'owner/<anything>' exists); the count plus the lines written is the number
\* of patterns, and the report is created with its header even when every
\* pattern matches.
C8_Literal(name, pat) ==
    /\ Len(name) = Len(pat)
    /\ \A n \in DOMAIN pat : pat[n] = "?" \/ pat[n] = name[n]

\* a pattern that is literal up to an optional last '*'
C8_Glob(name, pat) ==
    IF pat # <<>> /\ pat[Len(pat)] = "*"
    THEN /\ Len(name) >= Len(pat) - 1
         /\ C8_Literal(SubSeq(name, 1, Len(pat) - 1), SubSeq(pat, 1, Len(pat) - 1))
    ELSE C8_Literal(name, pat)

C8_Matches(pat) == \E n \in DOMAIN actions_versions : C8_Glob(actions_versions[n].k, pat)

----------------------------------------------------------------------------
\* C9: a call of make_request issues exactly one GET; on success the caller
\* gets the parsed body, on 403, any other error status, a network failure
\* or a keyboard interrupt the process ends with status 1.  No second GET is
\* issued for a call, and after the process has ended no step is taken.
C9_NextAction ==
    CHOOSE a \in ActionNames : \E v \in Versions : unique_actions[idx] = RefOf(a, v)

C9_RequestDue ==
    \/ pc = "allowed"
    \/ /\ pc = "resolve"
       /\ idx <= Len(unique_actions)
       /\ ~DictHas(actions_versions, C9_NextAction)

C9_Endpoint ==
    IF pc = "resolve"
    THEN [path |-> "/repos/{}/releases/latest", name |-> C9_NextAction]
    ELSE IF args.org # <<>>
    THEN [path |-> "/orgs/{}/actions/permissions/selected-actions", name |-> args.org]
    ELSE [path |-> "/enterprises/{}/actions/permissions/selected-actions",
          name |-> args.enterprise]

C9_Body ==
    IF pc = "resolve" THEN api.releases[C9_NextAction]
    ELSE [patterns_allowed |-> api.patterns_allowed]

C9_MakeRequest ==
    [][/\ pc \notin {"exit", "done"}
       /\ C9_RequestDue =>
             /\ requests' = Append(requests, C9_Endpoint)
             /\ outcome' \in {"ok", "forbidden", "http_error", "network_error", "interrupt"}
             /\ outcome' = "ok" =>
                   /\ pc' # "exit"
                   /\ exit_status' = <<>>
                   /\ response' = C9_Body
             /\ outcome' # "ok" =>
                   /\ pc' = "exit"
                   /\ exit_status' = <<1>>
                   /\ UNCHANGED <<idx, response, allowed_actions, matching_patterns,
                                  csv_file, json_file, txt_file>>
       /\ ~C9_RequestDue => requests' = requests
      ]_vars

\* a first fetch succeeded, the second got a 403: the process has ended and
\* nothing was written
C9_Witness ==
    /\ pc = "exit"
    /\ exit_status = <<1>>
    /\ outcome = "forbidden"
    /\ Len(requests) = 2
    /\ requests[1] # requests[2]
    /\ ~csv_file.written

----------------------------------------------------------------------------
\* C10: the steps of a run are, in this order: load reports, resolve latest
\* releases, aggregate usage, clean up, write CSV, write JSON, then (only
\* with an org or enterprise) fetch the allow-list and compare.  A fatal
\* error during a latest-release fetch comes before any output file is
\* written; one during the allow-list fetch comes after the CSV and JSON
\* files are written and before the text report is created; the comparator
\* reads the cleaned table.
C10_Step(from, to) ==
    \/ <<from, to>> \in {<<"load", "resolve">>, <<"resolve", "resolve">>,
                         <<"resolve", "aggregate">>, <<"aggregate", "clean">>,
                         <<"clean", "csv">>, <<"csv", "json">>,
                         <<"allowed", "compare">>, <<"compare", "done">>}
    \/ from = "json" /\ to = (IF scoped(args) THEN "allowed" ELSE "done")
    \/ from \in {"load", "resolve", "allowed"} /\ to = "exit"

C10_Written == <<csv_file.written, json_file.written, txt_file.written>>

C10_Cleaned(table) ==
    \A n \in DOMAIN table :
        /\ table[n].v.versions_used_in_repos # <<>>
        /\ \A m \in DOMAIN table[n].v.versions_used_in_repos :
              table[n].v.versions_used_in_repos[m].v # <<>>

C10_Files ==
    /\ pc \in {"load", "resolve", "aggregate", "clean", "csv"} =>
          C10_Written = <<FALSE, FALSE, FALSE>>
    /\ pc = "json" => C10_Written = <<TRUE, FALSE, FALSE>>
    /\ pc \in {"allowed", "compare"} => C10_Written = <<TRUE, TRUE, FALSE>>
    /\ pc = "done" => C10_Written = <<TRUE, TRUE, scoped(args)>> /\ exit_status = <<0>>
    /\ pc = "exit" =>
          IF requests # <<>> /\ requests[Len(requests)].path # "/repos/{}/releases/latest"
          THEN C10_Written = <<TRUE, TRUE, FALSE>>
          ELSE C10_Written = <<FALSE, FALSE, FALSE>>
    /\ pc \in {"compare", "done"} =>
          /\ C10_Cleaned(actions_versions)
          /\ actions_versions = json_file.data

====
